---- MODULE Spec2Model ----
(***************************************************************************)
(* A model of the path interning store (src/src/pathstore.rs), of the      *)
(* filesystem table and its ingester (src/src/filesystemtable.rs), of the  *)
(* savings analysis (src/src/main.rs) and of DedupBuilder (src/src/lib.rs).*)
(*                                                                         *)
(* Strings (OsString) are sequences of bytes, a path is the sequence of    *)
(* its components as Path::iter() yields them, Option<u32> is <<>> for     *)
(* None and <<i>> for Some(i), and a BiHashMap is the set of its           *)
(* <<left, right>> pairs.                                                  *)
(***************************************************************************)
EXTENDS Integers, Sequences, FiniteSets, TLC

VARIABLES
    store,        \* a PathStore on its own
    calls,        \* the add_path calls made on store, with their results
    table,        \* Table: entries, paths (its PathStore), content (the arena)
    ingester,     \* Ingester: the three options set on it
    src,          \* the directory tree under Ingester.src during ingest()
    pc,           \* the position of do_ingest
    new_entries,  \* do_ingest's new_entries
    workers,      \* per new entry, the state of its for_each closure
    guard,        \* the holder of the Mutex around table.content
    old_entries,  \* table.entries when the current ingest() began
    loaded,       \* every content load made: path, offset and bytes
    scans,        \* the completed ingest() calls: tree and resulting entries
    jwalk_entries, \* compute_savings: the Vec<JWalkDirEntry> it is given
    file_entries, \* compute_savings: its Vec<FileEntry>
    groups,       \* compute_savings: the slices group_by_digest yields
    report,       \* compute_savings: what it prints
    spc,          \* the position of compute_savings
    builder,      \* DedupBuilder: root and digest_file
    disk,         \* the digest file on disk
    build_entries, \* build(): stored_entries, then entries
    dedup,        \* the Dedup that build() returns
    bpc,          \* the position of build()
    steps         \* what build() has done: load, scan, save

storeVars == <<store, calls>>

tableVars == <<table, ingester, src, pc, new_entries, workers, guard,
               old_entries, loaded, scans>>

analyzerVars == <<jwalk_entries, file_entries, groups, report, spc>>

builderVars == <<builder, disk, build_entries, dedup, bpc, steps>>

otherVars == <<analyzerVars, builderVars>>

vars == <<store, calls, table, ingester, src, pc, new_entries, workers, guard,
          old_entries, loaded, scans, jwalk_entries, file_entries, groups,
          report, spc, builder, disk, build_entries, dedup, bpc, steps>>

-----------------------------------------------------------------------------
(* Bounds *)

\* Longest path, in components, handed to add_path.
MaxDepth == 2

\* Number of add_path calls made on one store.
MaxCalls == 2

\* Number of ingest() calls made on one table.
MaxIngests == 2

\* Number of entries handed to compute_savings.
MaxFiles == 3

-----------------------------------------------------------------------------
(* Option<u32> and Ordering *)

None == <<>>

Some(i) == <<i>>

unwrap(opt) == opt[1]

Less == "Less"

Equal == "Equal"

Greater == "Greater"

\* Byte strings "a", "b" and "ab".
Segments == {<<1>>, <<2>>, <<1, 2>>}

\* OsString::new(): the empty string.
EmptyPart == <<>>

\* Paths of at most d components.
RECURSIVE PathsUpTo(_)
PathsUpTo(d) ==
    IF d = 0 THEN {<<>>}
    ELSE LET shorter == PathsUpTo(d - 1)
         IN  shorter \cup {Append(p, s) : p \in shorter, s \in Segments}

AllPaths == PathsUpTo(MaxDepth)

-----------------------------------------------------------------------------
(* BiHashMap *)

bimap_len(m) == Cardinality(m)

\* insert overwrites any pair that holds the same left or the same right value.
bimap_insert(m, left, right) ==
    {pr \in m : pr[1] # left /\ pr[2] # right} \cup {<<left, right>>}

get_by_right(m, right) ==
    IF \E pr \in m : pr[2] = right
    THEN Some((CHOOSE pr \in m : pr[2] = right)[1])
    ELSE None

get_by_left(m, left) ==
    IF \E pr \in m : pr[1] = left
    THEN Some((CHOOSE pr \in m : pr[1] = left)[2])
    ELSE None

-----------------------------------------------------------------------------
(* PathStore *)

\* A store that reserves nothing for the empty path.
new_unreserved == [parts |-> {}, paths |-> {}]

new == [parts |-> bimap_insert({}, 0, EmptyPart),
        paths |-> bimap_insert({}, 0, <<0, None>>)]

\* A part inserted one index past the length of the map.
insert_part_sparse(parts, part) ==
    LET found == get_by_right(parts, part)
    IN  IF found # None
        THEN [parts |-> parts, index |-> unwrap(found)]
        ELSE LET i == bimap_len(parts) + 1
             IN  [parts |-> bimap_insert(parts, i, part), index |-> i]

insert_or_lookup_part(parts, part) ==
    LET found == get_by_right(parts, part)
    IN  IF found # None
        THEN [parts |-> parts, index |-> unwrap(found)]
        ELSE LET i == bimap_len(parts)
             IN  [parts |-> bimap_insert(parts, i, part), index |-> i]

\* A path node inserted without looking it up first.
insert_path_always(paths, index, next_index) ==
    LET i == bimap_len(paths)
    IN  [paths |-> paths \cup {<<i, <<index, next_index>>>>}, index |-> i]

insert_or_lookup_path(paths, index, next_index) ==
    LET found == get_by_right(paths, <<index, next_index>>)
    IN  IF found # None
        THEN [paths |-> paths, index |-> unwrap(found)]
        ELSE LET i == bimap_len(paths)
             IN  [paths |-> bimap_insert(paths, i, <<index, next_index>>),
                  index |-> i]

\* The while loop of add_path over the components still to come.
RECURSIVE add_path_loop(_, _, _)
add_path_loop(st, rest, current_path_index) ==
    IF rest = <<>>
    THEN [store |-> st, index |-> unwrap(current_path_index)]
    ELSE LET p  == insert_or_lookup_part(st.parts, Head(rest))
             n  == insert_or_lookup_path(st.paths, p.index, current_path_index)
         IN  add_path_loop([parts |-> p.parts, paths |-> n.paths],
                           Tail(rest), Some(n.index))

add_path(st, path) ==
    IF Len(path) = 0
    THEN [store |-> st, index |-> 0]
    ELSE add_path_loop(st, path, None)

\* PathIteratorReverse: the part indices from the node to the root.
RECURSIVE PathIteratorReverse(_, _)
PathIteratorReverse(opt, paths) ==
    IF opt = None THEN <<>>
    ELSE LET node == unwrap(get_by_left(paths, unwrap(opt)))
         IN  <<node[1]>> \o PathIteratorReverse(node[2], paths)

rev(s) == [i \in 1..Len(s) |-> s[Len(s) + 1 - i]]

\* PathBuf: FromIterator pushes each part; an empty part adds no component.
PathBufCollect(strs) == SelectSeq(strs, LAMBDA s : s # EmptyPart)

\* get_path that leaves the parts in leaf-to-root order.
get_path_unreversed(st, index) ==
    LET ids == PathIteratorReverse(Some(index), st.paths)
    IN  PathBufCollect([i \in 1..Len(ids) |->
                            unwrap(get_by_left(st.parts, ids[i]))])

get_path(st, index) ==
    LET ids == rev(PathIteratorReverse(Some(index), st.paths))
    IN  PathBufCollect([i \in 1..Len(ids) |->
                            unwrap(get_by_left(st.parts, ids[i]))])

\* OsString::cmp: byte-wise lexicographic order.
RECURSIVE os_str_cmp(_, _)
os_str_cmp(a, b) ==
    IF a = <<>> /\ b = <<>> THEN Equal
    ELSE IF a = <<>> THEN Less
    ELSE IF b = <<>> THEN Greater
    ELSE IF Head(a) < Head(b) THEN Less
    ELSE IF Head(a) > Head(b) THEN Greater
    ELSE os_str_cmp(Tail(a), Tail(b))

\* A comparison that goes by length once the shorter sequence is exhausted.
RECURSIVE cmp_paths_by_length(_, _, _)
cmp_paths_by_length(st, a_it, b_it) ==
    IF a_it = <<>> /\ b_it = <<>> THEN Equal
    ELSE IF a_it = <<>> THEN Less
    ELSE IF b_it = <<>> THEN Greater
    ELSE IF Head(a_it) = Head(b_it)
         THEN cmp_paths_by_length(st, Tail(a_it), Tail(b_it))
         ELSE os_str_cmp(unwrap(get_by_left(st.parts, Head(a_it))),
                         unwrap(get_by_left(st.parts, Head(b_it))))

\* The for loop of cmp_paths over a_it.zip(b_it).
RECURSIVE cmp_paths_zip(_, _, _)
cmp_paths_zip(st, a_it, b_it) ==
    IF a_it = <<>> \/ b_it = <<>> THEN Equal
    ELSE IF Head(a_it) = Head(b_it)
         THEN cmp_paths_zip(st, Tail(a_it), Tail(b_it))
         ELSE os_str_cmp(unwrap(get_by_left(st.parts, Head(a_it))),
                         unwrap(get_by_left(st.parts, Head(b_it))))

cmp_paths(st, a_path, b_path) ==
    IF a_path = b_path THEN Equal
    ELSE cmp_paths_zip(st,
                       rev(PathIteratorReverse(Some(a_path), st.paths)),
                       rev(PathIteratorReverse(Some(b_path), st.paths)))

-----------------------------------------------------------------------------
(* The filesystem under the scan root *)

\* A directory tree: one node per item, the root (path <<>>) included.
\* meta_ok: entry.metadata() succeeds; open_ok: File::open succeeds;
\* read_ok: reading the item's bytes succeeds.
Node(path, kind, meta_ok, open_ok, read_ok, data, size) ==
    [path |-> path, kind |-> kind, meta_ok |-> meta_ok, open_ok |-> open_ok,
     read_ok |-> read_ok, data |-> data, size |-> size]

FileNode(path, data) == Node(path, "file", TRUE, TRUE, TRUE, data, Len(data))

\* A directory opens, but reading its bytes fails.
DirNode(path) == Node(path, "dir", TRUE, TRUE, FALSE, <<>>, 4)

RootNode == DirNode(<<>>)

\* An empty root directory.
TreeEmpty == {RootNode}

\* Files a and b.
TreeFiles ==
    {RootNode, FileNode(<<<<1>>>>, <<5>>), FileNode(<<<<2>>>>, <<6, 7>>)}

\* Files a and b, a with other content of another length.
TreeChanged ==
    {RootNode, FileNode(<<<<1>>>>, <<8, 9, 8>>), FileNode(<<<<2>>>>, <<6, 7>>)}

\* Directory a holding file a/ab.
TreeDir ==
    {RootNode, DirNode(<<<<1>>>>), FileNode(<<<<1>>, <<1, 2>>>>, <<5>>)}

\* Symbolic link a (to a file) beside a directory b whose metadata cannot
\* be read.
TreeLink ==
    {RootNode, Node(<<<<1>>>>, "symlink", TRUE, TRUE, TRUE, <<5>>, 1),
     Node(<<<<2>>>>, "dir", FALSE, TRUE, FALSE, <<>>, 4)}

\* File a beside a file b that cannot be opened or read.
TreeUnreadable ==
    {RootNode, FileNode(<<<<1>>>>, <<5>>),
     Node(<<<<2>>>>, "file", TRUE, FALSE, FALSE, <<6, 7>>, 2)}

\* The bytes whose blake3 output begins with sixteen zero bytes.
ZeroPreimage == <<9, 9>>

\* File a holding those bytes.
TreeZero == {RootNode, FileNode(<<<<1>>>>, ZeroPreimage)}

\* File a whose metadata cannot be read, before file b.
TreeNoMeta ==
    {RootNode, Node(<<<<1>>>>, "file", FALSE, TRUE, TRUE, <<5>>, 1),
     FileNode(<<<<2>>>>, <<6, 7>>)}

Trees == {TreeEmpty, TreeFiles, TreeChanged, TreeDir, TreeLink,
          TreeUnreadable, TreeZero, TreeNoMeta}

\* Segment-wise order of two paths of one tree; a directory before its items.
RECURSIVE walk_order(_, _)
walk_order(a, b) ==
    IF a = <<>> /\ b = <<>> THEN Equal
    ELSE IF a = <<>> THEN Less
    ELSE IF b = <<>> THEN Greater
    ELSE IF os_str_cmp(Head(a), Head(b)) # Equal
         THEN os_str_cmp(Head(a), Head(b))
         ELSE walk_order(Tail(a), Tail(b))

\* WalkDir::new(src).sort(true): the root, then each directory's items by
\* name, a directory's items right after the directory.
RECURSIVE WalkDir(_)
WalkDir(tree) ==
    IF tree = {} THEN <<>>
    ELSE LET first == CHOOSE n \in tree :
                          \A m \in tree : walk_order(n.path, m.path) # Greater
         IN  <<first>> \o WalkDir(tree \ {first})

\* The item at src.join(path).
node_at(tree, path) == CHOOSE n \in tree : n.path = path

\* fs::read(full_path): Ok(bytes) as Some(bytes), Err as None.
fs_read(tree, path) ==
    LET n == node_at(tree, path)
    IN  IF n.open_ok /\ n.read_ok THEN Some(n.data) ELSE None

-----------------------------------------------------------------------------
(* Entry, Content, Table *)

DefaultFlags ==
    [is_dir |-> FALSE, dotfile |-> FALSE, symlink |-> FALSE,
     readable |-> FALSE, writable |-> FALSE, executable |-> FALSE]

ContentNone == <<"None">>

ContentBytes(index) == <<"Bytes", index>>

TableNew == [entries |-> <<>>, paths |-> new, content |-> <<>>]

\* blake3 of the input, its first 16 bytes as a u128: distinct inputs of
\* bytes 1..9 have distinct values, and one of them has the value 0.
RECURSIVE blake3_u128(_)
blake3_u128(input) ==
    IF input = ZeroPreimage THEN 0
    ELSE IF input = <<>> THEN 1
    ELSE 10 * blake3_u128(SubSeq(input, 1, Len(input) - 1)) + input[Len(input)]

\* A digest handed out without the assert_ne!.
compute_content_digest_unasserted(input) ==
    [panic |-> FALSE, value |-> blake3_u128(input)]

\* The NonZeroU128 as value, or the panic of assert_ne!(digest, 0).
compute_content_digest(input) ==
    LET digest == blake3_u128(input)
    IN  [panic |-> digest = 0, value |-> digest]

\* A file digest that is None when the file does not open.
compute_file_digest_soft(tree, path) ==
    LET n == node_at(tree, path)
        d == compute_content_digest(IF n.read_ok THEN n.data ELSE <<>>)
    IN  IF n.open_ok
        THEN IF d.panic THEN "panic" ELSE Some(d.value)
        ELSE None

\* Some(digest), or "panic" when the file does not open or the digest is
\* zero; a failed read_to_end is ignored and leaves the data empty.
compute_file_digest(tree, path) ==
    LET n == node_at(tree, path)
        d == compute_content_digest(IF n.read_ok THEN n.data ELSE <<>>)
    IN  IF n.open_ok
        THEN IF d.panic THEN "panic" ELSE Some(d.value)
        ELSE "panic"

\* TableEntry::contained_content: Some(&table.content[ind..siz]), which
\* panics when ind > siz or siz > content.len(); None without content.
contained_content(t, entry) ==
    IF entry.content # ContentNone
    THEN LET ind == entry.content[2]
             siz == entry.size
         IN  IF ind > siz \/ siz > Len(t.content)
             THEN "panic"
             ELSE Some(SubSeq(t.content, ind + 1, siz))
    ELSE None

-----------------------------------------------------------------------------
(* Table::do_ingest: the walk *)

\* A closure of .map() that takes size and is_dir whatever metadata()
\* returned.
walk_entry_meta_unchecked(st, item) ==
    LET r == add_path(st, item.path)
    IN  [store |-> r.store,
         entry |-> [path    |-> r.index,
                    size    |-> item.size,
                    flags   |-> [DefaultFlags EXCEPT
                                    !.is_dir = (item.kind = "dir")],
                    content |-> ContentNone,
                    digest  |-> None]]

\* The closure of .map(): intern the path and build the entry.
walk_entry(st, item) ==
    LET r == add_path(st, item.path)
    IN  [store |-> r.store,
         entry |-> [path    |-> r.index,
                    size    |-> IF item.meta_ok THEN item.size ELSE 0,
                    flags   |-> IF item.meta_ok
                                THEN [DefaultFlags EXCEPT
                                          !.is_dir = (item.kind = "dir")]
                                ELSE DefaultFlags,
                    content |-> ContentNone,
                    digest  |-> None]]

\* A filter that keeps every walked item.
keep_everything(entry, create_directory_entries) == TRUE

\* The closure of .filter().
keep_entry(entry, create_directory_entries) ==
    LET is_file == ~entry.flags.is_dir
    IN  is_file \/ create_directory_entries

\* entries_it.collect(): map and filter over the walked items, in order.
RECURSIVE collect_entries(_, _, _, _)
collect_entries(st, items, create_directory_entries, acc) ==
    IF items = <<>> THEN [store |-> st, entries |-> acc]
    ELSE LET w == walk_entry(st, Head(items))
         IN  collect_entries(w.store, Tail(items), create_directory_entries,
                 IF keep_entry(w.entry, create_directory_entries)
                 THEN Append(acc, w.entry) ELSE acc)

-----------------------------------------------------------------------------
(* Table::do_ingest: the merge *)

\* One insertion step: x moves left past the entries it is Less than.
RECURSIVE insert_tail(_, _, _)
insert_tail(st, v, x) ==
    IF v = <<>> THEN <<x>>
    ELSE IF cmp_paths(st, x.path, v[Len(v)].path) = Less
         THEN Append(insert_tail(st, SubSeq(v, 1, Len(v) - 1), x), v[Len(v)])
         ELSE Append(v, x)

RECURSIVE insertion_sort(_, _, _)
insertion_sort(st, sorted, rest) ==
    IF rest = <<>> THEN sorted
    ELSE insertion_sort(st, insert_tail(st, sorted, Head(rest)), Tail(rest))

\* A sort by the arena offset the entry was given, entries without content
\* first: the order in which the workers arrived.
RECURSIVE insert_by_arrival(_, _)
insert_by_arrival(v, x) ==
    LET arrival(e) == IF e.content = ContentNone THEN -1 ELSE e.content[2]
    IN  IF v = <<>> THEN <<x>>
        ELSE IF arrival(x) < arrival(v[Len(v)])
             THEN Append(insert_by_arrival(SubSeq(v, 1, Len(v) - 1), x),
                         v[Len(v)])
             ELSE Append(v, x)

RECURSIVE sort_by_arrival(_, _)
sort_by_arrival(st, v) ==
    IF v = <<>> THEN <<>>
    ELSE insert_by_arrival(sort_by_arrival(st, SubSeq(v, 1, Len(v) - 1)),
                           v[Len(v)])

\* par_sort_unstable_by(|a, b| paths.cmp_paths(a.path, b.path)): rayon sorts
\* a slice of at most 20 elements, as every table of the model is, by
\* insertion, whatever the scheduling; entries that compare Equal keep their
\* order.
par_sort_unstable_by(st, v) == insertion_sort(st, <<>>, v)

\* Vec::dedup_by(|a, b| a.path == b.path): of each run of consecutive
\* entries with one path the first is kept.
RECURSIVE dedup_by(_)
dedup_by(v) ==
    IF Len(v) <= 1 THEN v
    ELSE IF v[1].path = v[2].path
         THEN dedup_by(<<v[1]>> \o Tail(Tail(v)))
         ELSE <<v[1]>> \o dedup_by(Tail(v))

-----------------------------------------------------------------------------
(* Table::do_ingest as a process *)

\* A Mutex that hands out its lock while it is held.
mutex_lock_unchecked(holder) == TRUE

\* Mutex::lock returns once no other closure holds the guard.
mutex_lock(holder) == holder = None

\* guard.len() as u32: the arenas of the model are far shorter than 2^32.
as_u32(n) == n

\* No compute_savings is running.
AnalyzerIdle ==
    /\ jwalk_entries = <<>>
    /\ file_entries = <<>>
    /\ groups = <<>>
    /\ report = <<>>
    /\ spc = "idle"

\* No DedupBuilder exists.
BuilderIdle ==
    /\ builder = <<>>
    /\ disk = <<>>
    /\ build_entries = <<>>
    /\ dedup = <<>>
    /\ bpc = "idle"
    /\ steps = <<>>

InitTable ==
    /\ table = TableNew
    /\ ingester \in [create_directory_entries : BOOLEAN,
                     ingest_file_content : BOOLEAN,
                     compute_digests : BOOLEAN]
    /\ src = {}
    /\ pc = "idle"
    /\ new_entries = <<>>
    /\ workers = <<>>
    /\ guard = None
    /\ old_entries = <<>>
    /\ loaded = {}
    /\ scans = <<>>

\* Lines 125-165: the sequential walk builds new_entries.
StartIngest(tree) ==
    /\ pc = "idle"
    /\ Len(scans) < MaxIngests
    /\ LET c == collect_entries(table.paths, WalkDir(tree),
                                ingester.create_directory_entries, <<>>)
       IN  /\ table' = [table EXCEPT !.paths = c.store]
           /\ new_entries' = c.entries
           /\ workers' = [i \in DOMAIN c.entries |->
                             [state |-> "start", file_contents |-> <<>>]]
           /\ pc' = IF ingester.ingest_file_content THEN "content"
                    ELSE IF ingester.compute_digests THEN "digest"
                    ELSE "merge"
    /\ src' = tree
    /\ old_entries' = table.entries
    /\ guard' = None
    /\ UNCHANGED <<otherVars, store, calls, ingester, loaded, scans>>

\* Lines 172-178 and 186-188: fs::read; on Ok, table_content.lock(), and
\* the offset is read and stored in the entry.
LockAndIndex(i) ==
    /\ pc = "content"
    /\ workers[i].state = "start"
    /\ LET full_path == get_path(table.paths, new_entries[i].path)
           read == fs_read(src, full_path)
           index == as_u32(Len(table.content))
       IN  IF read = None
           THEN /\ workers' = [workers EXCEPT ![i].state = "done"]
                /\ UNCHANGED <<guard, new_entries>>
           ELSE /\ mutex_lock(guard)
                /\ guard' = Some(i)
                /\ workers' = [workers EXCEPT ![i].state = "locked",
                                              ![i].file_contents = unwrap(read)]
                /\ new_entries' = [new_entries EXCEPT
                                      ![i].content = ContentBytes(index)]
    /\ UNCHANGED <<otherVars, store, calls, table, ingester, src, pc, old_entries,
                   loaded, scans>>

\* Lines 179-185: the bytes are appended, the digest computed, the guard
\* dropped at the end of the match arm; a panic of the digest ends
\* do_ingest with the bytes appended and the guard never released.
ExtendAndUnlock(i) ==
    /\ pc = "content"
    /\ workers[i].state = "locked"
    /\ table' = [table EXCEPT !.content = @ \o workers[i].file_contents]
    /\ LET d == compute_content_digest(workers[i].file_contents)
       IN  IF ingester.compute_digests /\ d.panic
           THEN /\ pc' = "panicked"
                /\ UNCHANGED <<new_entries, workers, guard>>
           ELSE /\ new_entries' =
                       IF ingester.compute_digests
                       THEN [new_entries EXCEPT ![i].digest = Some(d.value)]
                       ELSE new_entries
                /\ workers' = [workers EXCEPT ![i].state = "done"]
                /\ guard' = IF guard = Some(i) THEN None ELSE guard
                /\ UNCHANGED pc
    /\ loaded' = loaded \cup {[path  |-> new_entries[i].path,
                               index |-> new_entries[i].content[2],
                               bytes |-> workers[i].file_contents]}
    /\ UNCHANGED <<otherVars, store, calls, ingester, src, old_entries, scans>>

\* Lines 195-198: one closure of the digest-only for_each; a panic in it
\* ends do_ingest.
DigestEntry(i) ==
    /\ pc = "digest"
    /\ workers[i].state = "start"
    /\ LET full_path == get_path(table.paths, new_entries[i].path)
           digest == compute_file_digest(src, full_path)
       IN  IF digest = "panic"
           THEN /\ pc' = "panicked"
                /\ UNCHANGED <<new_entries, workers>>
           ELSE /\ new_entries' = [new_entries EXCEPT ![i].digest = digest]
                /\ workers' = [workers EXCEPT ![i].state = "done"]
                /\ UNCHANGED pc
    /\ UNCHANGED <<otherVars, store, calls, table, ingester, src, guard, old_entries,
                   loaded, scans>>

\* Lines 202-209, once the for_each (if any) has returned: extend, sort,
\* dedup.
Merge ==
    /\ \/ pc = "merge"
       \/ /\ pc \in {"content", "digest"}
          /\ \A i \in DOMAIN workers : workers[i].state = "done"
    /\ LET sorted == par_sort_unstable_by(table.paths,
                                          table.entries \o new_entries)
       IN  /\ table' = [table EXCEPT !.entries = dedup_by(sorted)]
           /\ scans' = Append(scans, [tree |-> src,
                                      entries |-> dedup_by(sorted)])
    /\ pc' = "idle"
    /\ UNCHANGED <<otherVars, store, calls, ingester, src, new_entries, workers, guard,
                   old_entries, loaded>>

Next ==
    \/ \E tree \in Trees : StartIngest(tree)
    \/ \E i \in DOMAIN workers : LockAndIndex(i)
    \/ \E i \in DOMAIN workers : ExtendAndUnlock(i)
    \/ \E i \in DOMAIN workers : DigestEntry(i)
    \/ Merge

Init ==
    /\ InitTable
    /\ store = new
    /\ calls = <<>>
    /\ AnalyzerIdle
    /\ BuilderIdle

Spec == Init /\ [][Next]_vars

-----------------------------------------------------------------------------
(* The store on its own: any sequence of add_path calls *)

InitStore ==
    /\ store = new
    /\ calls = <<>>
    /\ AnalyzerIdle
    /\ BuilderIdle
    /\ InitTable
    /\ ingester = [create_directory_entries |-> FALSE,
                   ingest_file_content |-> FALSE,
                   compute_digests |-> FALSE]

\* One call of add_path, recorded with the sizes of the store around it.
AddPath(path) ==
    /\ Len(calls) < MaxCalls
    /\ LET r == add_path(store, path)
       IN  /\ store' = r.store
           /\ calls' = Append(calls,
                  [path         |-> path,
                   index        |-> r.index,
                   parts_before |-> bimap_len(store.parts),
                   paths_before |-> bimap_len(store.paths),
                   parts_after  |-> bimap_len(r.store.parts),
                   paths_after  |-> bimap_len(r.store.paths)])
    /\ UNCHANGED <<tableVars, otherVars>>

NextStore == \E path \in AllPaths : AddPath(path)

SpecStore == InitStore /\ [][NextStore]_vars

-----------------------------------------------------------------------------
(* The savings analysis of main.rs *)

\* A jwalk DirEntry as compute_savings uses it: its path, whether its file
\* name is unicode, whether metadata() succeeds and the len() it gives,
\* whether File::open succeeds and the bytes read_to_end gives.
JWalkDirEntry(path, name_ok, meta_ok, open_ok, len, data) ==
    [path |-> path, name_ok |-> name_ok, meta_ok |-> meta_ok,
     open_ok |-> open_ok, len |-> len, data |-> data]

\* What may lie at p/x, for subdirectory p of the scanned path: a file of
\* 2000 bytes, another of 1025 bytes, one of 5 bytes, one with a name that
\* is not unicode, one without metadata, one that does not open.
DirEntriesAt(p) ==
    LET path == <<<<p>>, <<1>>>>
    IN  {JWalkDirEntry(path, TRUE, TRUE, TRUE, 2000, <<5>>),
         JWalkDirEntry(path, TRUE, TRUE, TRUE, 1025, <<6, 7>>),
         JWalkDirEntry(path, TRUE, TRUE, TRUE, 5, <<8>>),
         JWalkDirEntry(path, FALSE, TRUE, TRUE, 2000, <<5>>),
         JWalkDirEntry(path, TRUE, FALSE, TRUE, 2000, <<5>>),
         JWalkDirEntry(path, TRUE, TRUE, FALSE, 2000, <<5>>)}

\* The vectors scan_dir2 may return: entries of one file name in different
\* subdirectories, in any order (it sorts by file name only, and collects
\* the subdirectories in the order their threads finish).
EntryLists ==
    UNION {{v \in [1..k -> UNION {DirEntriesAt(p) : p \in 1..MaxFiles}] :
               \A i, j \in 1..k : i # j => v[i].path # v[j].path}
           : k \in 0..MaxFiles}

\* FileEntry::from_jwalk_entry: None for a name that is not unicode and for
\* inaccessible metadata.
from_jwalk_entry(dir_entry) ==
    IF ~dir_entry.name_ok THEN None
    ELSE IF ~dir_entry.meta_ok THEN None
    ELSE Some([name |-> <<1>>, path |-> dir_entry.path,
               len |-> dir_entry.len, digest |-> None])

\* .filter_map(|item| FileEntry::from_jwalk_entry(&item)), in the order of
\* the input.
filter_map_entries(v) ==
    LET made == [i \in DOMAIN v |-> from_jwalk_entry(v[i])]
        kept == SelectSeq(made, LAMBDA o : o # None)
    IN  [i \in DOMAIN kept |-> unwrap(kept[i])]

\* filter_files: filter_map(from_jwalk_entry), then the entries longer
\* than min_file_size.
filter_files(v) ==
    LET min_file_size == 1024
    IN  SelectSeq(filter_map_entries(v),
                  LAMBDA entry : entry.len > min_file_size)

\* compute_digest of main.rs and lib.rs: the u128, with no assert.
compute_digest(input) == blake3_u128(input)

\* compute_file_digest of main.rs and lib.rs on the file a DirEntry of v
\* stands for: Some(digest), or "panic" when the file does not open.
compute_file_digest_u128(v, path) ==
    LET d == CHOOSE e \in {v[i] : i \in DOMAIN v} : e.path = path
    IN  IF d.open_ok THEN Some(compute_digest(d.data)) ELSE "panic"

\* FileEntry::load_digest of an entry whose digest is stored.
load_digest(entry) == unwrap(entry.digest)

\* PartialEq for FileEntry.
FileEntry_eq(a, b) == load_digest(a) = load_digest(b)

\* PathBuf::cmp: component by component.
RECURSIVE path_cmp(_, _)
path_cmp(a, b) ==
    IF a = <<>> /\ b = <<>> THEN Equal
    ELSE IF a = <<>> THEN Less
    ELSE IF b = <<>> THEN Greater
    ELSE IF os_str_cmp(Head(a), Head(b)) # Equal
         THEN os_str_cmp(Head(a), Head(b))
         ELSE path_cmp(Tail(a), Tail(b))

\* Ord for FileEntry: by digest, then by path.
FileEntry_cmp(a, b) ==
    IF load_digest(a) < load_digest(b) THEN Less
    ELSE IF load_digest(a) > load_digest(b) THEN Greater
    ELSE path_cmp(a.path, b.path)

\* The comparison compute_savings sorts with: Option<u128>::cmp of the
\* digests.
digest_cmp(a, b) ==
    IF a.digest = b.digest THEN Equal
    ELSE IF a.digest = None THEN Less
    ELSE IF b.digest = None THEN Greater
    ELSE IF unwrap(a.digest) < unwrap(b.digest) THEN Less ELSE Greater

\* par_sort_unstable_by(|a, b| a.digest.load().cmp(&b.digest.load())), by
\* insertion as rayon sorts a slice of at most 20 elements.
RECURSIVE insert_by_digest(_, _)
insert_by_digest(v, x) ==
    IF v = <<>> THEN <<x>>
    ELSE IF digest_cmp(x, v[Len(v)]) = Less
         THEN Append(insert_by_digest(SubSeq(v, 1, Len(v) - 1), x), v[Len(v)])
         ELSE Append(v, x)

RECURSIVE sort_by_digest(_)
sort_by_digest(v) ==
    IF v = <<>> THEN <<>>
    ELSE insert_by_digest(sort_by_digest(SubSeq(v, 1, Len(v) - 1)), v[Len(v)])

\* The loop of group_by_digest: end_i moves on while peek() gives an
\* element equal to the first of the group.
RECURSIVE group_end(_, _, _)
group_end(numbers, begin_i, end_i) ==
    IF end_i + 1 > Len(numbers) THEN end_i
    ELSE IF FileEntry_eq(numbers[end_i + 1], numbers[begin_i])
         THEN group_end(numbers, begin_i, end_i + 1)
         ELSE end_i

\* The closure of batching, from the element next() gives: the slice
\* numbers[begin_i..end_i + 1], and the groups after it.
RECURSIVE batching(_, _)
batching(numbers, begin_i) ==
    IF begin_i > Len(numbers) THEN <<>>
    ELSE LET end_i == group_end(numbers, begin_i, begin_i)
         IN  <<SubSeq(numbers, begin_i, end_i)>>
                 \o batching(numbers, end_i + 1)

\* A grouping whose slices end one element early.
group_by_digest_short(numbers) ==
    LET g == batching(numbers, 1)
    IN  [i \in DOMAIN g |-> SubSeq(g[i], 1, Len(g[i]) - 1)]

\* group_by_digest: the slices the iterator yields, in order.
group_by_digest(numbers) == batching(numbers, 1)

RECURSIVE fold_len(_)
fold_len(v) == IF v = <<>> THEN 0 ELSE Head(v).len + fold_len(Tail(v))

\* The groups compute_savings prints: .filter(|x| x.len() > 10).take(10).
printed_groups(gs) ==
    LET big == SelectSeq(gs, LAMBDA g : Len(g) > 10)
    IN  SubSeq(big, 1, IF Len(big) < 10 THEN Len(big) ELSE 10)

InitSavings ==
    /\ jwalk_entries \in EntryLists
    /\ file_entries = <<>>
    /\ groups = <<>>
    /\ report = <<>>
    /\ spc = "start"
    /\ BuilderIdle
    /\ store = new
    /\ calls = <<>>
    /\ InitTable
    /\ ingester = [create_directory_entries |-> FALSE,
                   ingest_file_content |-> FALSE,
                   compute_digests |-> FALSE]

\* Lines 296-301: filter_files, the count and the sum of the lengths.
FilterFiles ==
    /\ spc = "start"
    /\ file_entries' = filter_files(jwalk_entries)
    /\ report' = [file_count |-> Len(filter_files(jwalk_entries)),
                  file_bytes |-> fold_len(filter_files(jwalk_entries))]
    /\ spc' = "digests"
    /\ UNCHANGED <<jwalk_entries, groups, builderVars, storeVars, tableVars>>

\* compute_digests: one closure of the for_each; a panic in it ends
\* compute_savings.
ComputeDigests(i) ==
    /\ spc = "digests"
    /\ file_entries[i].digest = None
    /\ LET digest == compute_file_digest_u128(jwalk_entries,
                                              file_entries[i].path)
       IN  IF digest = "panic"
           THEN spc' = "panicked" /\ UNCHANGED file_entries
           ELSE /\ file_entries' = [file_entries EXCEPT ![i].digest = digest]
                /\ UNCHANGED spc
    /\ UNCHANGED <<jwalk_entries, groups, report, builderVars, storeVars,
                   tableVars>>

\* Lines 306-307, once compute_digests has returned.
SortByDigest ==
    /\ spc = "digests"
    /\ \A i \in DOMAIN file_entries : file_entries[i].digest # None
    /\ file_entries' = sort_by_digest(file_entries)
    /\ spc' = "sorted"
    /\ UNCHANGED <<jwalk_entries, groups, report, builderVars, storeVars,
                   tableVars>>

\* Lines 309-331: the groups, the printed groups, "Duped" and "files".
GroupAndPrint ==
    /\ spc = "sorted"
    /\ groups' = group_by_digest(file_entries)
    /\ report' = [file_count |-> report.file_count,
                  file_bytes |-> report.file_bytes,
                  printed    |-> printed_groups(group_by_digest(file_entries))]
    /\ spc' = "done"
    /\ UNCHANGED <<jwalk_entries, file_entries, builderVars, storeVars,
                   tableVars>>

NextSavings ==
    \/ FilterFiles
    \/ \E i \in DOMAIN file_entries : ComputeDigests(i)
    \/ SortByDigest
    \/ GroupAndPrint

SpecSavings == InitSavings /\ [][NextSavings]_vars

-----------------------------------------------------------------------------
(* DedupBuilder::build of lib.rs *)

\* The DirEntry jwalk gives for an item of a tree; the names of the trees
\* are unicode.
DirEntryOf(n) ==
    JWalkDirEntry(n.path, TRUE, n.meta_ok, n.open_ok, n.size,
                  IF n.read_ok THEN n.data ELSE <<>>)

\* par_sort(): by Ord for FileEntry.
RECURSIVE insert_by_cmp(_, _)
insert_by_cmp(v, x) ==
    IF v = <<>> THEN <<x>>
    ELSE IF FileEntry_cmp(x, v[Len(v)]) = Less
         THEN Append(insert_by_cmp(SubSeq(v, 1, Len(v) - 1), x), v[Len(v)])
         ELSE Append(v, x)

RECURSIVE par_sort(_)
par_sort(v) ==
    IF v = <<>> THEN <<>>
    ELSE insert_by_cmp(par_sort(SubSeq(v, 1, Len(v) - 1)), v[Len(v)])

\* Vec::dedup(): of consecutive entries that are equal (PartialEq for
\* FileEntry: of one digest) the first is kept.
RECURSIVE vec_dedup(_)
vec_dedup(v) ==
    IF Len(v) <= 1 THEN v
    ELSE IF FileEntry_eq(v[1], v[2])
         THEN vec_dedup(<<v[1]>> \o Tail(Tail(v)))
         ELSE <<v[1]>> \o vec_dedup(Tail(v))

\* Dedup::scan: the regular files with a FileEntry, each with its digest,
\* sorted and deduplicated; [panic |-> TRUE] when one of them does not
\* open.
scan(tree) ==
    LET walked == WalkDir(tree)
        files == SelectSeq(walked, LAMBDA n : n.kind = "file")
        dirents == [i \in DOMAIN files |-> DirEntryOf(files[i])]
        made == filter_map_entries(dirents)
        digests == [i \in DOMAIN made |->
                       compute_file_digest_u128(dirents, made[i].path)]
    IN  IF \E i \in DOMAIN made : digests[i] = "panic"
        THEN [panic |-> TRUE, entries |-> <<>>]
        ELSE [panic |-> FALSE,
              entries |-> vec_dedup(par_sort(
                  [i \in DOMAIN made |->
                      [made[i] EXCEPT !.digest = digests[i]]]))]

\* bincode::serialize of a Vec<FileEntry>: per entry its four fields in
\* the order of the struct.
bincode_serialize(v) ==
    [i \in DOMAIN v |-> <<v[i].name, v[i].path, v[i].len, v[i].digest>>]

\* bincode::deserialize to a Vec<FileEntry>.
bincode_deserialize(bytes) ==
    [i \in DOMAIN bytes |->
        [name |-> bytes[i][1], path |-> bytes[i][2], len |-> bytes[i][3],
         digest |-> bytes[i][4]]]

\* The digest file: absent, random bytes, or the zstd stream of a vector.
FileMissing == [exists |-> FALSE, zstd |-> FALSE, bytes |-> <<>>]

FileRandom == [exists |-> TRUE, zstd |-> FALSE, bytes |-> <<>>]

FileOf(v) == [exists |-> TRUE, zstd |-> TRUE, bytes |-> bincode_serialize(v)]

\* A load that takes whatever it finds for an empty vector.
load_entries_unchecked(file) ==
    IF file.exists /\ file.zstd
    THEN [ok |-> TRUE, entries |-> bincode_deserialize(file.bytes)]
    ELSE [ok |-> TRUE, entries |-> <<>>]

\* load_entries_from_file: Err when the file cannot be read or decoded.
load_entries_from_file(file) ==
    IF ~file.exists THEN [ok |-> FALSE, entries |-> <<>>]
    ELSE IF ~file.zstd THEN [ok |-> FALSE, entries |-> <<>>]
    ELSE [ok |-> TRUE, entries |-> bincode_deserialize(file.bytes)]

\* save_entries_to_file, when fs::write succeeds.
save_entries_to_file(v) == FileOf(v)

\* The vectors a digest file may hold: what a scan of some tree saved.
SavedLists == {scan(t).entries : t \in {u \in Trees : ~scan(u).panic}}

InitBuild ==
    /\ builder \in [root : Trees, digest_file : {None, Some("digest_file")}]
    /\ disk \in {FileMissing, FileRandom} \cup {FileOf(v) : v \in SavedLists}
    /\ build_entries = None
    /\ dedup = <<>>
    /\ bpc = "load"
    /\ steps = <<>>
    /\ AnalyzerIdle
    /\ store = new
    /\ calls = <<>>
    /\ InitTable
    /\ ingester = [create_directory_entries |-> FALSE,
                   ingest_file_content |-> FALSE,
                   compute_digests |-> FALSE]

\* Lines 37-46: stored_entries.
LoadEntries ==
    /\ bpc = "load"
    /\ IF builder.digest_file = None
       THEN /\ build_entries' = None
            /\ UNCHANGED steps
       ELSE LET r == load_entries_from_file(disk)
            IN  /\ build_entries' = IF r.ok THEN Some(r.entries) ELSE None
                /\ steps' = Append(steps, IF r.ok THEN "load_ok"
                                          ELSE "load_err")
    /\ bpc' = "match"
    /\ UNCHANGED <<builder, disk, dedup, analyzerVars, storeVars, tableVars>>

\* Lines 49-50: no stored entries, Dedup::scan(&self.root).
ScanRoot ==
    /\ bpc = "match"
    /\ build_entries = None
    /\ LET r == scan(builder.root)
       IN  IF r.panic
           THEN bpc' = "panicked" /\ UNCHANGED build_entries
           ELSE /\ build_entries' = Some(r.entries)
                /\ bpc' = IF builder.digest_file = None THEN "return"
                          ELSE "save"
    /\ steps' = Append(steps, "scan")
    /\ UNCHANGED <<builder, disk, dedup, analyzerVars, storeVars, tableVars>>

\* Lines 51-54: save_entries_to_file, its result dropped.
SaveEntries(ok) ==
    /\ bpc = "save"
    /\ disk' = IF ok THEN save_entries_to_file(unwrap(build_entries))
               ELSE disk
    /\ steps' = Append(steps, IF ok THEN "save_ok" ELSE "save_err")
    /\ bpc' = "return"
    /\ UNCHANGED <<builder, build_entries, dedup, analyzerVars, storeVars,
                   tableVars>>

\* Lines 48 and 60-64: the Dedup.
ReturnDedup ==
    /\ \/ bpc = "return"
       \/ bpc = "match" /\ build_entries # None
    /\ dedup' = [root |-> builder.root, digest_file |-> builder.digest_file,
                 entries |-> unwrap(build_entries)]
    /\ bpc' = "done"
    /\ UNCHANGED <<builder, disk, build_entries, steps, analyzerVars,
                   storeVars, tableVars>>

NextBuild ==
    \/ LoadEntries
    \/ ScanRoot
    \/ \E ok \in BOOLEAN : SaveEntries(ok)
    \/ ReturnDedup

SpecBuild == InitBuild /\ [][NextBuild]_vars

-----------------------------------------------------------------------------
(* Properties of the store *)

\* Segment-wise lexicographic order of two paths; a strict prefix is Less.
RECURSIVE LexPathCmp(_, _)
LexPathCmp(a, b) ==
    IF a = <<>> /\ b = <<>> THEN Equal
    ELSE IF a = <<>> THEN Less
    ELSE IF b = <<>> THEN Greater
    ELSE IF os_str_cmp(Head(a), Head(b)) # Equal
         THEN os_str_cmp(Head(a), Head(b))
         ELSE LexPathCmp(Tail(a), Tail(b))

\* C1: add_path is idempotent. A call of add_path with a path that an
\* earlier call on the same store was given returns the index the earlier
\* call returned, and stores no new part and no new path node.
AddPathIdempotent ==
    \A j \in 1..Len(calls) : \A i \in 1..(j - 1) :
        calls[i].path = calls[j].path =>
            /\ calls[j].index = calls[i].index
            /\ calls[j].parts_after = calls[j].parts_before
            /\ calls[j].paths_after = calls[j].paths_before

\* A two-component path was added twice in a row.
AddPathIdempotentWitness ==
    /\ Len(calls) = 2
    /\ Len(calls[1].path) = 2
    /\ calls[2].path = calls[1].path
    /\ calls[1].paths_after > calls[1].paths_before

\* C2: round trip. get_path of every index add_path has returned is the
\* path that was added, also after the later add_path calls on the store.
RoundTrip ==
    \A i \in 1..Len(calls) : get_path(store, calls[i].index) = calls[i].path

\* A two-component path added first, and the store grown by a later call.
RoundTripWitness ==
    /\ Len(calls) = 2
    /\ Len(calls[1].path) = 2
    /\ calls[1].path[1] # calls[1].path[2]
    /\ calls[2].paths_after > calls[2].paths_before

\* C3: empty path invariant. In every store state add_path of the empty
\* path returns 0, and add_path of a non-empty path never returns 0.
EmptyPathIsZero ==
    /\ \A p \in AllPaths : (add_path(store, p).index = 0) <=> (p = <<>>)
    /\ \A i \in 1..Len(calls) : (calls[i].index = 0) <=> (calls[i].path = <<>>)

\* The empty path was added after a non-empty one.
EmptyPathIsZeroWitness ==
    /\ Len(calls) >= 2
    /\ calls[1].path # <<>>
    /\ calls[2].path = <<>>
    /\ calls[2].index = 0

\* C4: ordering consistency. cmp_paths of the indices of two added paths is
\* the segment-wise lexicographic order of the two paths, a strict prefix
\* ordering before the longer path.
OrderingConsistency ==
    \A i, j \in 1..Len(calls) :
        cmp_paths(store, calls[i].index, calls[j].index)
            = LexPathCmp(calls[i].path, calls[j].path)

\* a is a strict prefix of b, segment by segment.
StrictPrefix(a, b) == Len(a) < Len(b) /\ SubSeq(b, 1, Len(a)) = a

\* C17 as claimed: cmp_paths of two different indices is Equal exactly when
\* the segment sequence of one of the two paths is a strict prefix of the
\* other's.
EqualIffStrictPrefix ==
    \A i, j \in 1..Len(calls) :
        calls[i].index # calls[j].index =>
            ((cmp_paths(store, calls[i].index, calls[j].index) = Equal)
                <=> \/ StrictPrefix(calls[i].path, calls[j].path)
                    \/ StrictPrefix(calls[j].path, calls[i].path))

\* C17 as amended: cmp_paths of two different indices is Equal exactly when
\* one of the two paths is a strict prefix of the other and is not the
\* empty path; the empty path, index 0, is Less than every other path.
EqualIffNonEmptyStrictPrefix ==
    \A i, j \in 1..Len(calls) :
        calls[i].index # calls[j].index =>
            /\ (cmp_paths(store, calls[i].index, calls[j].index) = Equal)
                   <=> \/ /\ calls[i].path # <<>>
                          /\ StrictPrefix(calls[i].path, calls[j].path)
                       \/ /\ calls[j].path # <<>>
                          /\ StrictPrefix(calls[j].path, calls[i].path)
            /\ calls[i].path = <<>> =>
                   cmp_paths(store, calls[i].index, calls[j].index) = Less

\* A path and a longer path it begins have been added, and so have the
\* empty path and another path.
EqualIffNonEmptyStrictPrefixWitness ==
    /\ \E i, j \in 1..Len(calls) :
           /\ calls[i].path # <<>>
           /\ StrictPrefix(calls[i].path, calls[j].path)
           /\ calls[i].index # calls[j].index
           /\ cmp_paths(store, calls[j].index, calls[i].index) = Equal
    /\ Len(calls) = MaxCalls

\* C21: after any sequence of add_path calls the part indices are
\* 0..parts.len()-1 and the path indices 0..paths.len()-1, no index, part
\* string or (part, parent) pair is stored twice, the part of every path
\* node is a stored part, the parent of every path node is absent or a
\* smaller stored path index, and every prefix of every added path is the
\* path of a stored index.
WellFormedStore ==
    /\ {pr[1] : pr \in store.parts} = 0..(bimap_len(store.parts) - 1)
    /\ {pr[1] : pr \in store.paths} = 0..(bimap_len(store.paths) - 1)
    /\ \A p, q \in store.parts : (p[1] = q[1] \/ p[2] = q[2]) => p = q
    /\ \A p, q \in store.paths : (p[1] = q[1] \/ p[2] = q[2]) => p = q
    /\ \A n \in store.paths : \E p \in store.parts : p[1] = n[2][1]
    /\ \A n \in store.paths :
           \/ n[2][2] = None
           \/ /\ unwrap(n[2][2]) < n[1]
              /\ \E m \in store.paths : m[1] = unwrap(n[2][2])
    /\ \A i \in 1..Len(calls) :
           \A k \in 0..Len(calls[i].path) :
               \E n \in store.paths :
                   get_path(store, n[1]) = SubSeq(calls[i].path, 1, k)

\* Two paths of two components that begin with the same component have
\* been added: four path nodes, the first component interned once.
WellFormedStoreWitness ==
    /\ Len(calls) = 2
    /\ Len(calls[1].path) = 2
    /\ Len(calls[2].path) = 2
    /\ calls[1].path[1] = calls[2].path[1]
    /\ calls[1].index # calls[2].index
    /\ bimap_len(store.paths) = 4
    /\ bimap_len(store.parts) = 4

-----------------------------------------------------------------------------
(* Properties of the savings analysis *)

\* The entries of the input that are files with a FileEntry and a digest.
InputFiles ==
    SelectSeq(jwalk_entries,
              LAMBDA d : d.name_ok /\ d.meta_ok /\ d.open_ok)

InputDigests ==
    {compute_digest(InputFiles[i].data) : i \in DOMAIN InputFiles}

\* The length of the first input file with digest d.
FirstLen(d) ==
    LET first == CHOOSE i \in DOMAIN InputFiles :
                     /\ compute_digest(InputFiles[i].data) = d
                     /\ \A j \in 1..(i - 1) :
                            compute_digest(InputFiles[j].data) # d
    IN  InputFiles[first].len

RECURSIVE SumFirstLen(_)
SumFirstLen(ds) ==
    IF ds = {} THEN 0
    ELSE LET d == CHOOSE x \in ds : TRUE
         IN  FirstLen(d) + SumFirstLen(ds \ {d})

\* C15: when compute_savings is done, it has reported the sum of the sizes
\* of all the file entries as total bytes, the sum of the size of the first
\* member of each equal-digest group as deduplicated bytes, and the number
\* of distinct digests as group count.
SavingsReport ==
    spc = "done" =>
        /\ report.file_bytes = fold_len(InputFiles)
        /\ "dedup_bytes" \in DOMAIN report
        /\ report.dedup_bytes = SumFirstLen(InputDigests)
        /\ "group_count" \in DOMAIN report
        /\ report.group_count = Cardinality(InputDigests)

\* C18: once compute_savings has sorted, file_entries is in the order of
\* digest, then path: each entry is Less than every later one.
SortedByDigestThenPath ==
    spc \in {"sorted", "done"} =>
        \A i, j \in DOMAIN file_entries :
            i < j => FileEntry_cmp(file_entries[i], file_entries[j]) = Less

RECURSIVE Concat(_)
Concat(gs) == IF gs = <<>> THEN <<>> ELSE Head(gs) \o Concat(Tail(gs))

\* C19: the groups group_by_digest yields from the digest-sorted entries
\* are not empty, each of one digest, two consecutive ones of different
\* digests, and one after the other they are the input; no entry gives no
\* group.
GroupsAreMaximalRuns ==
    spc = "done" =>
        /\ \A g \in DOMAIN groups :
               /\ Len(groups[g]) >= 1
               /\ \A m \in DOMAIN groups[g] :
                      groups[g][m].digest = groups[g][1].digest
        /\ \A g \in 1..(Len(groups) - 1) :
               groups[g][1].digest # groups[g + 1][1].digest
        /\ Concat(groups) = file_entries
        /\ file_entries = <<>> => groups = <<>>

\* Three entries were grouped into a group of two and a group of one.
GroupsAreMaximalRunsWitness ==
    /\ spc = "done"
    /\ Len(file_entries) = 3
    /\ Len(groups) = 2
    /\ Len(groups[1]) = 2

-----------------------------------------------------------------------------
(* Properties of DedupBuilder::build *)

\* The digest file cannot be loaded: it is absent or is not a zstd stream.
Unloadable(file) == file \in {FileMissing, FileRandom}

\* The vector a loadable digest file holds.
Holds(file) == CHOOSE v \in SavedLists : FileOf(v) = file

\* build() with a digest file has returned: either the file, still
\* unloadable or rewritten by a save that succeeded, could not be loaded,
\* the root was scanned, the Dedup has the scanned entries and a save was
\* attempted; or the file was loaded, no scan was made, nothing was saved
\* and the Dedup has the entries the file holds.
BuildUsesFileOrScan ==
    (bpc = "done" /\ builder.digest_file # None) =>
        \/ /\ steps = <<"load_err", "scan", "save_ok">>
           /\ dedup.entries = scan(builder.root).entries
           /\ disk = FileOf(dedup.entries)
        \/ /\ steps = <<"load_err", "scan", "save_err">>
           /\ dedup.entries = scan(builder.root).entries
           /\ Unloadable(disk)
        \/ /\ steps = <<"load_ok">>
           /\ ~Unloadable(disk)
           /\ dedup.entries = Holds(disk)

\* C16 as claimed: build() with a digest file that cannot be loaded never
\* fails, and when build() has returned it has used the scan or the file
\* as above.
BuildNeverFails ==
    /\ (builder # <<>> /\ builder.digest_file # None /\ Unloadable(disk))
           => bpc # "panicked"
    /\ BuildUsesFileOrScan

\* C16 as amended: build() with a digest file that cannot be loaded fails
\* only by the panic of the scan on a regular file of the root that does
\* not open, never by the load; and when build() has returned it has used
\* the scan or the file as above.
BuildFailsOnlyInScan ==
    /\ bpc = "panicked" =>
           /\ steps[Len(steps)] = "scan"
           /\ scan(builder.root).panic
    /\ (bpc \in {"done", "save", "return"} /\ builder.digest_file # None
            /\ steps[1] = "load_err") => ~scan(builder.root).panic
    /\ BuildUsesFileOrScan

\* build() has returned after a load that failed, a scan that found
\* files and a save that succeeded.
BuildFailsOnlyInScanWitness ==
    /\ bpc = "done"
    /\ steps = <<"load_err", "scan", "save_ok">>
    /\ dedup.entries # <<>>

-----------------------------------------------------------------------------
(* Properties of the table and of ingest() *)

cde == ingester.create_directory_entries

EntryPath(e) == get_path(table.paths, e.path)

EntryPaths(v) == {v[i].path : i \in DOMAIN v}

\* An ingest() has completed and no other has begun.
Ingested == pc = "idle" /\ Len(scans) >= 1

\* C5: after every completed ingest(), table.entries is sorted by the
\* segment-wise lexicographic order of the paths, and no two entries have
\* the same path index.
EntriesSortedUnique ==
    Ingested =>
        /\ \A i \in 1..(Len(table.entries) - 1) :
               LexPathCmp(EntryPath(table.entries[i]),
                          EntryPath(table.entries[i + 1])) = Less
        /\ \A i, j \in DOMAIN table.entries :
               i # j => table.entries[i].path # table.entries[j].path

\* C6: when a path already in the table is ingested again, the entry that
\* survives the merge is the newly ingested one.
MergeKeepsLater ==
    Ingested =>
        \A i \in DOMAIN new_entries :
            new_entries[i].path \in EntryPaths(old_entries) =>
                /\ new_entries[i].path \in EntryPaths(table.entries)
                /\ \A k \in DOMAIN table.entries :
                       table.entries[k].path = new_entries[i].path
                           => table.entries[k] = new_entries[i]

\* C7: ingesting the same unchanged tree a second time into the table
\* leaves the entry count and the set of paths as they were after the first
\* ingest.
RescanIdempotent ==
    (Len(scans) >= 2 /\ scans[1].tree = scans[2].tree) =>
        /\ Len(scans[2].entries) = Len(scans[1].entries)
        /\ EntryPaths(scans[2].entries) = EntryPaths(scans[1].entries)

\* C8: whatever the interleaving of the content workers, the arena holds
\* the bytes of every load at the offset its entry was given, the byte
\* ranges of two loads do not overlap, and every Content::Bytes of an entry
\* is the offset of a load of that entry's path.
ArenaAtomicity ==
    /\ \A l \in loaded :
           SubSeq(table.content, l.index + 1, l.index + Len(l.bytes)) = l.bytes
    /\ \A l1, l2 \in loaded :
           l1 # l2 => \/ l1.index + Len(l1.bytes) <= l2.index
                      \/ l2.index + Len(l2.bytes) <= l1.index
    /\ \A i \in DOMAIN new_entries :
           (workers[i].state = "done" /\ new_entries[i].content # ContentNone)
               => [path  |-> new_entries[i].path,
                   index |-> new_entries[i].content[2],
                   bytes |-> workers[i].file_contents] \in loaded
    /\ \A k \in DOMAIN table.entries :
           table.entries[k].content # ContentNone
               => \E l \in loaded : /\ l.path = table.entries[k].path
                                    /\ l.index = table.entries[k].content[2]

\* Two workers have appended, the later entry of the walk first.
ArenaAtomicityWitness ==
    /\ pc = "content"
    /\ Len(new_entries) = 2
    /\ workers[1].state = "done"
    /\ workers[2].state = "done"
    /\ new_entries[2].content = ContentBytes(0)
    /\ new_entries[1].content = ContentBytes(Len(workers[2].file_contents))

\* The new entries as one worker builds them, entry after entry in the
\* order of the walk, from arena offset base on.
RECURSIVE SequentialLoad(_, _, _)
SequentialLoad(entries, base, acc) ==
    IF entries = <<>> THEN acc
    ELSE LET e == Head(entries)
             read == fs_read(src, EntryPath(e))
             digest == compute_file_digest(src, EntryPath(e))
             done ==
                 IF ingester.ingest_file_content
                 THEN IF read = None THEN e
                      ELSE [e EXCEPT
                               !.content = ContentBytes(base),
                               !.digest = IF ingester.compute_digests
                                          THEN Some(compute_content_digest(
                                                        unwrap(read)).value)
                                          ELSE None]
                 ELSE IF ingester.compute_digests
                      THEN [e EXCEPT !.digest = digest]
                      ELSE e
             grown == IF ingester.ingest_file_content /\ read # None
                      THEN base + Len(unwrap(read)) ELSE base
         IN  SequentialLoad(Tail(entries), grown, Append(acc, done))

RECURSIVE LoadedLength(_)
LoadedLength(entries) ==
    IF entries = <<>> THEN 0
    ELSE (IF Head(entries).content = ContentNone THEN 0
          ELSE Len(unwrap(fs_read(src, EntryPath(Head(entries))))))
         + LoadedLength(Tail(entries))

\* The entry list of the last ingest() had its workers run one after the
\* other in the order of the walk.
SequentialResult ==
    LET walked == collect_entries(table.paths, WalkDir(src), cde, <<>>).entries
        base == Len(table.content) - LoadedLength(new_entries)
        fresh == SequentialLoad(walked, base, <<>>)
    IN  dedup_by(par_sort_unstable_by(table.paths, old_entries \o fresh))

WithoutOffsets(v) ==
    [i \in DOMAIN v |->
        IF v[i].content = ContentNone THEN v[i]
        ELSE [v[i] EXCEPT !.content = <<"Bytes">>]]

\* C9 as claimed: the final entry list, every field of every entry, is the
\* same for every scheduling of the workers: it is the list the sequential
\* schedule gives.
ScheduleIndependence ==
    Ingested => table.entries = SequentialResult

\* C9 as amended: but for the offsets in Content::Bytes, the final entry
\* list (the order of the entries, and each entry's path, size, flags,
\* digest and kind of content) is the same for every scheduling of the
\* workers.
ScheduleIndependenceButOffsets ==
    Ingested => WithoutOffsets(table.entries) = WithoutOffsets(SequentialResult)

\* An ingest() has completed in which the second entry was loaded first.
ScheduleIndependenceWitness ==
    /\ Ingested
    /\ table.entries # SequentialResult
    /\ Len(new_entries) = 2
    /\ new_entries[2].content = ContentBytes(0)
    /\ new_entries[1].digest # None

\* C14: in every state every entry of the table, and every entry an ingest
\* is building, has no digest or a digest that is not 0; an ingest that
\* computes digests completes only if no digest it computed was 0.
DigestNeverZero ==
    /\ \A k \in DOMAIN table.entries :
           table.entries[k].digest # None
               => unwrap(table.entries[k].digest) # 0
    /\ \A i \in DOMAIN new_entries :
           new_entries[i].digest # None => unwrap(new_entries[i].digest) # 0
    /\ (Ingested /\ ingester.compute_digests) =>
           \A i \in DOMAIN new_entries :
               LET n == node_at(src, EntryPath(new_entries[i]))
               IN  (n.open_ok /\ n.read_ok) => blake3_u128(n.data) # 0

\* The digest of a file came out as 0 and ended the ingest; the table
\* holds entries with digests from an ingest before.
DigestNeverZeroWitness ==
    /\ pc = "panicked"
    /\ src = TreeZero
    /\ \E k \in DOMAIN table.entries : table.entries[k].digest # None

\* The walk of an ingest() has ended and no worker has begun.
Walked ==
    /\ pc \in {"content", "digest", "merge"}
    /\ \A i \in DOMAIN workers : workers[i].state = "start"

\* C11: when an ingest() with ingest_file_content has completed, every
\* entry of it whose file could not be read is in the table with no content
\* and no digest, and every other entry of it has its content (and, with
\* compute_digests, its digest).
ReadFailureSoft ==
    (Ingested /\ ingester.ingest_file_content) =>
        \A i \in DOMAIN new_entries :
            IF fs_read(src, EntryPath(new_entries[i])) = None
            THEN /\ new_entries[i].content = ContentNone
                 /\ new_entries[i].digest = None
                 /\ \E k \in DOMAIN table.entries :
                        /\ table.entries[k].path = new_entries[i].path
                        /\ table.entries[k].content = ContentNone
                        /\ table.entries[k].digest = None
            ELSE /\ new_entries[i].content # ContentNone
                 /\ ingester.compute_digests => new_entries[i].digest # None

\* C12: a panic leaves table.entries as it was before the ingest, and an
\* ingest() that computes digests without loading content completes only
\* if every kept item opened, each with a digest.
DigestOpenFailureFatal ==
    /\ pc = "panicked" => table.entries = old_entries
    /\ (Ingested /\ ingester.compute_digests /\ ~ingester.ingest_file_content)
           => \A i \in DOMAIN new_entries :
                  /\ node_at(src, EntryPath(new_entries[i])).open_ok
                  /\ new_entries[i].digest # None

\* A digest-only ingest of a tree with a file that does not open has
\* panicked, on a table that held entries.
DigestOpenFailureFatalWitness ==
    /\ pc = "panicked"
    /\ ingester.compute_digests /\ ~ingester.ingest_file_content
    /\ src = TreeUnreadable
    /\ old_entries # <<>>
    /\ \E i \in DOMAIN new_entries :
           ~node_at(src, EntryPath(new_entries[i])).open_ok

\* C13: when the walk has ended, every item whose metadata could not be
\* read is an entry with size 0, all flags false, no content and no digest,
\* and the items walked after it are entries too.
MetadataFailureSoft ==
    Walked =>
        /\ \A n \in src :
               ~n.meta_ok =>
                   \E i \in DOMAIN new_entries :
                       /\ EntryPath(new_entries[i]) = n.path
                       /\ new_entries[i].size = 0
                       /\ new_entries[i].flags = DefaultFlags
                       /\ new_entries[i].content = ContentNone
                       /\ new_entries[i].digest = None
        /\ \A n \in src :
               (n.meta_ok /\ n.kind # "dir") =>
                   \E i \in DOMAIN new_entries :
                       EntryPath(new_entries[i]) = n.path

\* The walk of a tree has ended where the metadata of the first file
\* could not be read.
MetadataFailureSoftWitness ==
    /\ Walked
    /\ src = TreeNoMeta
    /\ Len(new_entries) = 2
    /\ new_entries[1].size = 0

\* C20: after an ingest(), for every entry of the table with
\* Content::Bytes(o) and size s, contained_content returns the s bytes of
\* the arena from offset o on.
ContainedContentOwnBytes ==
    Ingested =>
        \A k \in DOMAIN table.entries :
            LET e == table.entries[k]
                o == e.content[2]
            IN  e.content # ContentNone =>
                    /\ o + e.size <= Len(table.content)
                    /\ contained_content(table, e)
                           = Some(SubSeq(table.content, o + 1, o + e.size))

\* The item of the tree that a new entry was made from.
ItemOf(e) == node_at(src, EntryPath(e))

\* C10 as claimed: a walked item becomes an entry only if it is a regular
\* file, or a directory with create_directory_entries enabled; an empty root
\* directory ingested without create_directory_entries yields no entry.
IngestFilterRegularFiles ==
    /\ \A i \in DOMAIN new_entries :
           \/ ItemOf(new_entries[i]).kind = "file"
           \/ ItemOf(new_entries[i]).kind = "dir" /\ cde
    /\ (src = TreeEmpty /\ ~cde) => new_entries = <<>>

\* C10 as amended: the walked items that become entries are, in the order
\* of the walk, those whose metadata did not report a directory (a file, a
\* symbolic link, an item whose metadata could not be read) and, with
\* create_directory_entries enabled, all of them; an empty root directory
\* (its metadata readable) ingested without create_directory_entries yields
\* no entry.
IngestFilter ==
    LET kept == SelectSeq(WalkDir(src),
                    LAMBDA n : ~(n.meta_ok /\ n.kind = "dir") \/ cde)
    IN  /\ Len(new_entries) = Len(kept)
        /\ \A i \in DOMAIN new_entries :
               EntryPath(new_entries[i]) = kept[i].path
        /\ (src = TreeEmpty /\ ~cde) => new_entries = <<>>

\* The walk of a symbolic link and of a directory without metadata, made
\* without create_directory_entries, has kept both.
IngestFilterWitness ==
    /\ pc # "idle"
    /\ ~cde
    /\ src = TreeLink
    /\ Len(new_entries) = 2
    /\ ItemOf(new_entries[1]).kind = "symlink"
    /\ ItemOf(new_entries[2]).kind = "dir"

====
